---- MODULE Spec2Model ----
(***************************************************************************)
(* Model of src/app/utils/photoOverlay.ts: the photo overlay calculator    *)
(* getPhotoOverlayParams and the diagnostic logger verifyPhotoSource.      *)
(*                                                                         *)
(* Numbers are exact rationals [n, d] in lowest terms with d > 0, so that  *)
(* a division by 153 or 244 followed by a multiplication is computed in    *)
(* the order the code computes it and compared without rounding.  IEEE     *)
(* rounding, NaN and the infinities are outside the model.                 *)
(*                                                                         *)
(* A payload string is a head (a tuple of characters) followed by `pad`    *)
(* copies of the character "A"; the console text uses ASCII stand-ins for  *)
(* the box-drawing, dash and warning-sign characters of the source.        *)
(***************************************************************************)
EXTENDS Integers, Sequences, FiniteSets, TLC

VARIABLES resolved, calls, employeeName, photoBase64, templateName, console, pc

vars == <<resolved, calls, employeeName, photoBase64, templateName, console, pc>>

overlayVars == <<resolved, calls>>
verifyVars == <<employeeName, photoBase64, templateName, console, pc>>

-----------------------------------------------------------------------------
(* Bounds *)

MaxTarget == 2
MaxHeadLen == 29
MaxPad == 1540

-----------------------------------------------------------------------------
(* Exact rational arithmetic *)

Abs(i) == IF i < 0 THEN -i ELSE i

RECURSIVE GCD(_, _)
GCD(a, b) == IF b = 0 THEN a ELSE GCD(b, a % b)

Rat(n, d) ==
    LET g == GCD(Abs(n), Abs(d))
        s == IF d < 0 THEN -1 ELSE 1
    IN  [n |-> (s * n) \div g, d |-> (s * d) \div g]

Num(i) == [n |-> i, d |-> 1]

RatDiv(a, b) == Rat(a.n * b.d, a.d * b.n)

RatMul(a, b) == Rat(a.n * b.n, a.d * b.d)

RatAdd(a, b) == Rat(a.n * b.d + b.n * a.d, a.d * b.d)

Floor(a) == a.n \div a.d

\* Math.floor in place of Math.round
MathRound_Floor(a) == Floor(a)

\* Math.round: the nearest integer, a half rounding towards +Infinity
MathRound(a) == Floor(RatAdd(a, Rat(1, 2)))

-----------------------------------------------------------------------------
(* Overlay calculator *)

CARD_WIDTH_PX == 153
CARD_HEIGHT_PX == 244

Shapes == {"circle", "rounded", "square"}

\* showPhoto is an optional boolean: true, false or absent
ShowPhotoValues == {"true", "false", "undefined"}

\* pixel values read from the resolved design: negative, zero, positive
PxValues == {-1, 0, 1}

TargetValues == (-1)..MaxTarget

ResolvedDesigns ==
    [photoPosition : [x : PxValues, y : PxValues],
     photoSize : [width : PxValues, height : PxValues],
     photoShape : Shapes,
     showPhoto : ShowPhotoValues]

\* (px / refPx) * targetMM, in the order the code evaluates it
ScalePx(px, refPx, targetMM) == RatMul(RatDiv(Num(px), Num(refPx)), Num(targetMM))

OverlayRecord(lp, tp, wp, hp, lm, tm, wm, hm, sh, vis) ==
    [leftPx |-> lp, topPx |-> tp, widthPx |-> wp, heightPx |-> hp,
     leftMM |-> lm, topMM |-> tm, widthMM |-> wm, heightMM |-> hm,
     shape |-> sh, visible |-> vis]

\* vertical fields scaled by the reference width
getPhotoOverlayParams_SwappedRef(r, cardWidthMM, cardHeightMM) ==
    LET leftPx == r.photoPosition.x
        topPx == r.photoPosition.y
        widthPx == r.photoSize.width
        heightPx == r.photoSize.height
    IN  OverlayRecord(leftPx, topPx, widthPx, heightPx,
            ScalePx(leftPx, CARD_WIDTH_PX, cardWidthMM),
            ScalePx(topPx, CARD_WIDTH_PX, cardHeightMM),
            ScalePx(widthPx, CARD_WIDTH_PX, cardWidthMM),
            ScalePx(heightPx, CARD_WIDTH_PX, cardHeightMM),
            r.photoShape,
            r.showPhoto # "false" /\ widthPx > 0 /\ heightPx > 0)

\* pixel fields pre-multiplied by the target size
getPhotoOverlayParams_ScaledPx(r, cardWidthMM, cardHeightMM) ==
    LET leftPx == r.photoPosition.x * cardWidthMM
        topPx == r.photoPosition.y * cardHeightMM
        widthPx == r.photoSize.width
        heightPx == r.photoSize.height
    IN  OverlayRecord(leftPx, topPx, widthPx, heightPx,
            ScalePx(r.photoPosition.x, CARD_WIDTH_PX, cardWidthMM),
            ScalePx(r.photoPosition.y, CARD_HEIGHT_PX, cardHeightMM),
            ScalePx(widthPx, CARD_WIDTH_PX, cardWidthMM),
            ScalePx(heightPx, CARD_HEIGHT_PX, cardHeightMM),
            r.photoShape,
            r.showPhoto # "false" /\ widthPx > 0 /\ heightPx > 0)

\* visibility tests showPhoto for truthiness and the sizes with >=
getPhotoOverlayParams_TruthyShow(r, cardWidthMM, cardHeightMM) ==
    LET leftPx == r.photoPosition.x
        topPx == r.photoPosition.y
        widthPx == r.photoSize.width
        heightPx == r.photoSize.height
    IN  OverlayRecord(leftPx, topPx, widthPx, heightPx,
            ScalePx(leftPx, CARD_WIDTH_PX, cardWidthMM),
            ScalePx(topPx, CARD_HEIGHT_PX, cardHeightMM),
            ScalePx(widthPx, CARD_WIDTH_PX, cardWidthMM),
            ScalePx(heightPx, CARD_HEIGHT_PX, cardHeightMM),
            r.photoShape,
            r.showPhoto = "true" /\ widthPx >= 0 /\ heightPx >= 0)

\* millimetre fields offset by the target size instead of scaled by it
getPhotoOverlayParams_Additive(r, cardWidthMM, cardHeightMM) ==
    LET leftPx == r.photoPosition.x
        topPx == r.photoPosition.y
        widthPx == r.photoSize.width
        heightPx == r.photoSize.height
    IN  OverlayRecord(leftPx, topPx, widthPx, heightPx,
            RatAdd(RatDiv(Num(leftPx), Num(CARD_WIDTH_PX)), Num(cardWidthMM)),
            RatAdd(RatDiv(Num(topPx), Num(CARD_HEIGHT_PX)), Num(cardHeightMM)),
            RatAdd(RatDiv(Num(widthPx), Num(CARD_WIDTH_PX)), Num(cardWidthMM)),
            RatAdd(RatDiv(Num(heightPx), Num(CARD_HEIGHT_PX)), Num(cardHeightMM)),
            r.photoShape,
            r.showPhoto # "false" /\ widthPx > 0 /\ heightPx > 0)

\* target dimensions clamped to their absolute value
getPhotoOverlayParams_AbsTarget(r, cardWidthMM, cardHeightMM) ==
    LET leftPx == r.photoPosition.x
        topPx == r.photoPosition.y
        widthPx == r.photoSize.width
        heightPx == r.photoSize.height
    IN  OverlayRecord(leftPx, topPx, widthPx, heightPx,
            ScalePx(leftPx, CARD_WIDTH_PX, Abs(cardWidthMM)),
            ScalePx(topPx, CARD_HEIGHT_PX, Abs(cardHeightMM)),
            ScalePx(widthPx, CARD_WIDTH_PX, Abs(cardWidthMM)),
            ScalePx(heightPx, CARD_HEIGHT_PX, Abs(cardHeightMM)),
            r.photoShape,
            r.showPhoto # "false" /\ widthPx > 0 /\ heightPx > 0)

getPhotoOverlayParams(r, cardWidthMM, cardHeightMM) ==
    LET leftPx == r.photoPosition.x
        topPx == r.photoPosition.y
        widthPx == r.photoSize.width
        heightPx == r.photoSize.height
    IN  OverlayRecord(leftPx, topPx, widthPx, heightPx,
            ScalePx(leftPx, CARD_WIDTH_PX, cardWidthMM),
            ScalePx(topPx, CARD_HEIGHT_PX, cardHeightMM),
            ScalePx(widthPx, CARD_WIDTH_PX, cardWidthMM),
            ScalePx(heightPx, CARD_HEIGHT_PX, cardHeightMM),
            r.photoShape,
            r.showPhoto # "false" /\ widthPx > 0 /\ heightPx > 0)

\* One call of getPhotoOverlayParams on the template, recorded with its
\* arguments; a pair of calls on one template is recorded, which is what
\* the relational properties compare.
CallOverlay(w, h) ==
    LET c == [cardWidthMM |-> w, cardHeightMM |-> h,
              out |-> getPhotoOverlayParams(resolved, w, h)]
    IN  /\ Len(calls) < 2
        /\ calls' = Append(calls, c)
        /\ UNCHANGED resolved
        /\ UNCHANGED verifyVars

-----------------------------------------------------------------------------
(* Source verifier *)

DataImagePrefix == <<"d", "a", "t", "a", ":", "i", "m", "a", "g", "e", "/">>

DataImagePngPrefix == <<"d", "a", "t", "a", ":", "i", "m", "a", "g", "e", "/", "p", "n", "g">>

ExamplePngHead == <<"d", "a", "t", "a", ":", "i", "m", "a", "g", "e", "/", "p", "n", "g", ";", "b", "a", "s", "e", "6", "4", ",">>

ExampleRawUrl == <<"h", "t", "t", "p", "s", ":", "/", "/", "e", "x", "a", "m", "p", "l", "e", ".", "c", "o", "m", "/", "p", "h", "o", "t", "o", ".", "j", "p", "g">>

SampleHeads ==
    { ExamplePngHead,
      <<"d", "a", "t", "a", ":", "i", "m", "a", "g", "e", "/", "j", "p", "e", "g", ";", "b", "a", "s", "e", "6", "4", ",">>,
      ExampleRawUrl,
      <<"D", "A", "T", "A", ":", "i", "m", "a", "g", "e", "/", "p", "n", "g">>,
      <<"d", "a", "t", "a", ":", "t", "e", "x", "t", "/", "p", "n", "g">>,
      <<"x", "d", "a", "t", "a", ":", "i", "m", "a", "g", "e", "/", "p", "n", "g">> }

Min(a, b) == IF a < b THEN a ELSE b

\* Every prefix of a sample, up to MaxHeadLen characters
Heads == { SubSeq(s, 1, Min(k, Len(s))) : s \in SampleHeads, k \in 0..MaxHeadLen }

Payloads ==
    { [defined |-> FALSE, head |-> <<>>, pad |-> 0] } \cup
    [defined : {TRUE}, head : Heads, pad : 0..MaxPad]

EmployeeNames == {"Alice", "Bob"}

TemplateNames == {"Modern", "Classic"}

\* String.prototype.length
Length(p) == Len(p.head) + p.pad

CharAt(p, i) == IF i <= Len(p.head) THEN p.head[i] ELSE "A"

\* String.prototype.includes in place of startsWith
StartsWith_Includes(p, prefix) ==
    \E off \in 0..Len(p.head) :
        /\ Length(p) >= off + Len(prefix)
        /\ \A i \in 1..Len(prefix) : CharAt(p, off + i) = prefix[i]

\* String.prototype.startsWith
StartsWith(p, prefix) ==
    /\ Length(p) >= Len(prefix)
    /\ \A i \in 1..Len(prefix) : CharAt(p, i) = prefix[i]

\* photoBase64 === undefined in place of !photoBase64
Falsy_UndefinedOnly(p) == ~p.defined

\* !photoBase64 : undefined and the empty string are falsy
Falsy(p) == ~p.defined \/ Length(p) = 0

\* `${b}` for a boolean b
BoolToString(b) == IF b THEN "true" ELSE "false"

Line(level, prefix, value, suffix) ==
    [level |-> level, prefix |-> prefix, value |-> value, suffix |-> suffix]

NoPhotoText == ": NO PHOTO - export will have blank photo area"
PngFormatText == "PNG (supports transparency)"
OtherFormatText == "JPEG/other"
ProcessedText == "PROCESSED (bg-removed + cropped)"
RawUrlText == "(!) RAW URL - possible bug"

WarnOutput(name) == << Line("warn", "[PHOTO-VERIFY] ", name, NoPhotoText) >>

\* the size line logged before the format line
InfoOutput_Reordered(name, p, tname) ==
    LET isDataUrl == StartsWith(p, DataImagePrefix)
        isPNG == StartsWith(p, DataImagePngPrefix)
        sizeKB == MathRound(RatDiv(Num(Length(p)), Num(1024)))
    IN  << Line("log", "[PHOTO-VERIFY] ", name, ":"),
           Line("log", "  |- Template: ", tname, ""),
           Line("log", "  |- Is data URL: ", BoolToString(isDataUrl), ""),
           Line("log", "  |- Size: ", sizeKB, " KB"),
           Line("log", "  |- Format: ",
                IF isPNG THEN PngFormatText ELSE OtherFormatText, ""),
           Line("log", "  '- Source: ",
                IF isDataUrl THEN ProcessedText ELSE RawUrlText, "") >>

\* the PNG test looks for the MIME type alone, without the data: scheme
InfoOutput_PngMime(name, p, tname) ==
    LET isDataUrl == StartsWith(p, DataImagePrefix)
        isPNG == \E off \in 0..Len(p.head) :
                    /\ Length(p) >= off + 9
                    /\ \A i \in 1..9 : CharAt(p, off + i) = DataImagePngPrefix[5 + i]
        sizeKB == MathRound(RatDiv(Num(Length(p)), Num(1024)))
    IN  << Line("log", "[PHOTO-VERIFY] ", name, ":"),
           Line("log", "  |- Template: ", tname, ""),
           Line("log", "  |- Is data URL: ", BoolToString(isDataUrl), ""),
           Line("log", "  |- Format: ",
                IF isPNG THEN PngFormatText ELSE OtherFormatText, ""),
           Line("log", "  |- Size: ", sizeKB, " KB"),
           Line("log", "  '- Source: ",
                IF isDataUrl THEN ProcessedText ELSE RawUrlText, "") >>

InfoOutput(name, p, tname) ==
    LET isDataUrl == StartsWith(p, DataImagePrefix)
        isPNG == StartsWith(p, DataImagePngPrefix)
        sizeKB == MathRound(RatDiv(Num(Length(p)), Num(1024)))
    IN  << Line("log", "[PHOTO-VERIFY] ", name, ":"),
           Line("log", "  |- Template: ", tname, ""),
           Line("log", "  |- Is data URL: ", BoolToString(isDataUrl), ""),
           Line("log", "  |- Format: ",
                IF isPNG THEN PngFormatText ELSE OtherFormatText, ""),
           Line("log", "  |- Size: ", sizeKB, " KB"),
           Line("log", "  '- Source: ",
                IF isDataUrl THEN ProcessedText ELSE RawUrlText, "") >>

\* verifyPhotoSource, payload absent: one warning, then return
verifyPhotoSourceAbsent ==
    /\ pc = "called"
    /\ Falsy(photoBase64)
    /\ console' = console \o WarnOutput(employeeName)
    /\ pc' = "returned"
    /\ UNCHANGED <<employeeName, photoBase64, templateName>>
    /\ UNCHANGED overlayVars

\* verifyPhotoSource, payload present: classify and log the block
verifyPhotoSourcePresent ==
    /\ pc = "called"
    /\ ~Falsy(photoBase64)
    /\ console' = console \o InfoOutput(employeeName, photoBase64, templateName)
    /\ pc' = "returned"
    /\ UNCHANGED <<employeeName, photoBase64, templateName>>
    /\ UNCHANGED overlayVars

InitVerify ==
    /\ employeeName \in EmployeeNames
    /\ photoBase64 \in Payloads
    /\ templateName \in TemplateNames
    /\ console = <<>>
    /\ pc = "called"
    /\ resolved = [photoPosition |-> [x |-> 0, y |-> 0],
                   photoSize |-> [width |-> 0, height |-> 0],
                   photoShape |-> "square", showPhoto |-> "undefined"]
    /\ calls = <<>>

NextVerify == verifyPhotoSourceAbsent \/ verifyPhotoSourcePresent

SpecVerify == InitVerify /\ [][NextVerify]_vars

InitVerifyIdle ==
    /\ employeeName = "Alice"
    /\ photoBase64 = [defined |-> FALSE, head |-> <<>>, pad |-> 0]
    /\ templateName = "Modern"
    /\ console = <<>>
    /\ pc = "idle"

InitOverlay ==
    /\ resolved \in ResolvedDesigns
    /\ calls = <<>>
    /\ InitVerifyIdle

NextOverlay == \E w \in TargetValues, h \in TargetValues : CallOverlay(w, h)

SpecOverlay == InitOverlay /\ [][NextOverlay]_vars

-----------------------------------------------------------------------------
(* Properties of the overlay calculator, checked under SpecOverlay *)

CallIdx == 1..Len(calls)

\* q = n / d for a rational q and integers n, d (d # 0)
RatEq(q, n, d) == q.n * d = n * q.d

IsNeg(q) == q.n < 0
IsZero(q) == q.n = 0
IsPos(q) == q.n > 0

\* C1: for positive target width W and height H, leftMM = x / 153 * W,
\* widthMM = width / 153 * W, topMM = y / 244 * H, heightMM = height / 244 * H.
C1_MillimetreLaw ==
    \A i \in CallIdx :
        LET c == calls[i] IN
        (c.cardWidthMM > 0 /\ c.cardHeightMM > 0) =>
            /\ RatEq(c.out.leftMM, resolved.photoPosition.x * c.cardWidthMM, 153)
            /\ RatEq(c.out.widthMM, resolved.photoSize.width * c.cardWidthMM, 153)
            /\ RatEq(c.out.topMM, resolved.photoPosition.y * c.cardHeightMM, 244)
            /\ RatEq(c.out.heightMM, resolved.photoSize.height * c.cardHeightMM, 244)

C1_Witness ==
    \E i \in CallIdx :
        /\ calls[i].cardWidthMM = 1 /\ calls[i].cardHeightMM = 2
        /\ resolved.photoPosition.x = 1 /\ resolved.photoPosition.y = 1
        /\ resolved.photoSize.width = 1 /\ resolved.photoSize.height = 1
        /\ calls[i].out.topMM = [n |-> 1, d |-> 122]
        /\ calls[i].out.leftMM = [n |-> 1, d |-> 153]

\* C2: the pixel fields and the shape of every result are the resolved
\* design's values, whatever the target dimensions; two calls on the same
\* design agree on them.
C2_PixelPassthrough ==
    /\ \A i \in CallIdx :
        /\ calls[i].out.leftPx = resolved.photoPosition.x
        /\ calls[i].out.topPx = resolved.photoPosition.y
        /\ calls[i].out.widthPx = resolved.photoSize.width
        /\ calls[i].out.heightPx = resolved.photoSize.height
        /\ calls[i].out.shape = resolved.photoShape
    /\ \A i, j \in CallIdx :
        /\ calls[i].out.leftPx = calls[j].out.leftPx
        /\ calls[i].out.topPx = calls[j].out.topPx
        /\ calls[i].out.widthPx = calls[j].out.widthPx
        /\ calls[i].out.heightPx = calls[j].out.heightPx
        /\ calls[i].out.shape = calls[j].out.shape

C2_Witness ==
    /\ Len(calls) >= 2
    /\ calls[1].cardWidthMM = 2 /\ calls[1].cardHeightMM = 1
    /\ calls[2].cardWidthMM = 0 /\ calls[2].cardHeightMM = -1
    /\ resolved.photoPosition.x = 1 /\ resolved.photoPosition.y = -1
    /\ resolved.photoShape = "rounded"
    /\ calls[2].out.leftPx = 1 /\ calls[2].out.topPx = -1
    /\ calls[2].out.shape = "rounded"

\* C3: visible is true exactly when showPhoto is not false (absent counts
\* as shown) and the pixel width and height are both positive; it does not
\* vary with the target dimensions.
C3_Visibility ==
    /\ \A i \in CallIdx :
        calls[i].out.visible =
            ( /\ resolved.showPhoto \in {"true", "undefined"}
              /\ resolved.photoSize.width > 0
              /\ resolved.photoSize.height > 0 )
    /\ \A i, j \in CallIdx : calls[i].out.visible = calls[j].out.visible

C3_Witness ==
    \E i \in CallIdx :
        /\ resolved.showPhoto = "undefined"
        /\ resolved.photoSize.width = 1 /\ resolved.photoSize.height = 1
        /\ resolved.photoPosition.x = -1
        /\ calls[i].cardWidthMM = 0
        /\ calls[i].out.visible = TRUE

\* q2 = 2 * q1
RatTwice(q2, q1) == q2.n * q1.d = 2 * q1.n * q2.d

\* C4: a call with targets (2W, 2H) returns millimetre fields twice those
\* of the call with (W, H) and the same pixel fields, shape and visibility.
C4_ScalingLinearity ==
    \A i, j \in CallIdx :
        ( /\ calls[j].cardWidthMM = 2 * calls[i].cardWidthMM
          /\ calls[j].cardHeightMM = 2 * calls[i].cardHeightMM ) =>
            /\ RatTwice(calls[j].out.leftMM, calls[i].out.leftMM)
            /\ RatTwice(calls[j].out.topMM, calls[i].out.topMM)
            /\ RatTwice(calls[j].out.widthMM, calls[i].out.widthMM)
            /\ RatTwice(calls[j].out.heightMM, calls[i].out.heightMM)
            /\ calls[j].out.leftPx = calls[i].out.leftPx
            /\ calls[j].out.topPx = calls[i].out.topPx
            /\ calls[j].out.widthPx = calls[i].out.widthPx
            /\ calls[j].out.heightPx = calls[i].out.heightPx
            /\ calls[j].out.shape = calls[i].out.shape
            /\ calls[j].out.visible = calls[i].out.visible

C4_Witness ==
    /\ Len(calls) >= 2
    /\ calls[1].cardWidthMM = 1 /\ calls[1].cardHeightMM = 1
    /\ calls[2].cardWidthMM = 2 /\ calls[2].cardHeightMM = 2
    /\ resolved.photoPosition.x = 1 /\ resolved.photoPosition.y = -1
    /\ resolved.photoSize.width = 1 /\ resolved.photoSize.height = 1
    /\ calls[2].out.leftMM = [n |-> 2, d |-> 153]
    /\ calls[2].out.topMM = [n |-> -1, d |-> 122]

NonPos(q) == q.n <= 0

\* C5 as stated: with a zero or negative target width (height), leftMM and
\* widthMM (topMM and heightMM) are zero or negative, for every design.
C5_DegenerateNonPositive ==
    \A i \in CallIdx :
        LET c == calls[i] IN
        /\ c.cardWidthMM <= 0 => NonPos(c.out.leftMM) /\ NonPos(c.out.widthMM)
        /\ c.cardHeightMM <= 0 => NonPos(c.out.topMM) /\ NonPos(c.out.heightMM)

\* the sign of px / ref * target, for a zero or negative target
DegenerateSign(px, target, mm) ==
    /\ (target = 0 \/ px = 0) => IsZero(mm)
    /\ (target < 0 /\ px > 0) => IsNeg(mm)
    /\ (target < 0 /\ px < 0) => IsPos(mm)

\* C5 (amended): with a zero or negative target width (height) a result is
\* still returned, and each millimetre field computed from that dimension
\* is zero when the target or the pixel value is zero, negative when the
\* target is negative and the pixel value positive, and positive when both
\* are negative.
C5_DegenerateSigns ==
    \A i \in CallIdx :
        LET c == calls[i] IN
        /\ c.cardWidthMM <= 0 =>
            /\ DegenerateSign(resolved.photoPosition.x, c.cardWidthMM, c.out.leftMM)
            /\ DegenerateSign(resolved.photoSize.width, c.cardWidthMM, c.out.widthMM)
        /\ c.cardHeightMM <= 0 =>
            /\ DegenerateSign(resolved.photoPosition.y, c.cardHeightMM, c.out.topMM)
            /\ DegenerateSign(resolved.photoSize.height, c.cardHeightMM, c.out.heightMM)

C5_Witness ==
    \E i \in CallIdx :
        /\ calls[i].cardWidthMM = -1 /\ calls[i].cardHeightMM = 0
        /\ resolved.photoPosition.x = -1 /\ resolved.photoSize.width = 1
        /\ resolved.photoPosition.y = 1
        /\ calls[i].out.leftMM = [n |-> 1, d |-> 153]
        /\ calls[i].out.widthMM = [n |-> -1, d |-> 153]
        /\ calls[i].out.topMM = [n |-> 0, d |-> 1]

-----------------------------------------------------------------------------
(* Properties of the source verifier, checked under SpecVerify *)

Returned == pc = "returned"

Absent == ~photoBase64.defined \/ (photoBase64.head = <<>> /\ photoBase64.pad = 0)

\* the first Len(pre) characters of the payload are pre
Begins(pre) ==
    /\ photoBase64.defined
    /\ Len(photoBase64.head) + photoBase64.pad >= Len(pre)
    /\ [i \in 1..Len(pre) |-> CharAt(photoBase64, i)] = pre

ExamplePng == [defined |-> TRUE, head |-> ExamplePngHead, pad |-> 4]

ExampleUrl == [defined |-> TRUE, head |-> ExampleRawUrl, pad |-> 0]

\* C6: for an absent payload (undefined or "") exactly one line is emitted,
\* a warning with the subject name and the NO PHOTO text, and nothing else.
C6_AbsentOneWarning ==
    (Returned /\ Absent) =>
        /\ Len(console) = 1
        /\ console[1].level = "warn"
        /\ console[1].value = employeeName
        /\ console[1].suffix = NoPhotoText
        /\ \A i \in 1..Len(console) : console[i].level # "log"

C6_Witness ==
    /\ Returned
    /\ photoBase64.defined /\ photoBase64.head = <<>> /\ photoBase64.pad = 0
    /\ employeeName = "Alice"
    /\ Len(console) = 1 /\ console[1].level = "warn"

InfoPrefixes ==
    << "[PHOTO-VERIFY] ", "  |- Template: ", "  |- Is data URL: ",
       "  |- Format: ", "  |- Size: ", "  '- Source: " >>

\* C7: for a non-empty payload no warning is emitted and exactly six
\* informational lines are, in the order header with subject, template,
\* data-URL flag, format, size in KB, provenance.
C7_PresentSixLines ==
    (Returned /\ ~Absent) =>
        /\ Len(console) = 6
        /\ \A i \in 1..Len(console) :
            console[i].level = "log" /\ console[i].prefix = InfoPrefixes[i]
        /\ console[1].value = employeeName
        /\ console[2].value = templateName
        /\ console[3].value \in {"true", "false"}
        /\ console[4].value \in {PngFormatText, OtherFormatText}
        /\ console[5].value \in Nat /\ console[5].suffix = " KB"
        /\ console[6].value \in {ProcessedText, RawUrlText}

C7_Witness ==
    /\ Returned
    /\ photoBase64 = ExampleUrl
    /\ employeeName = "Bob" /\ templateName = "Classic"
    /\ Len(console) = 6
    /\ console[2].value = "Classic"
    /\ console[5].value = 0

\* C8: for a non-empty payload the provenance is PROCESSED exactly when
\* the payload begins with "data:image/"; every other payload is reported
\* as not a data URL, JPEG/other, RAW URL.
C8_DefaultBranch ==
    (Returned /\ ~Absent /\ Len(console) = 6) =>
        /\ (console[6].value = ProcessedText) <=> Begins(DataImagePrefix)
        /\ ~Begins(DataImagePrefix) =>
            /\ console[3].value = "false"
            /\ console[4].value = OtherFormatText
            /\ console[6].value = RawUrlText

C8_Witness ==
    /\ Returned
    /\ photoBase64 = ExampleUrl
    /\ Len(console) = 6
    /\ console[3].value = "false"
    /\ console[4].value = OtherFormatText
    /\ console[6].value = RawUrlText

\* floor((len + 512) / 1024)
HalfUpKB(len) == (len + 512) \div 1024

ReportedKB == console[5].value

\* the size statements shared by C9 as stated and as amended
C9_SizeRule ==
    LET len == Len(photoBase64.head) + photoBase64.pad IN
    /\ ReportedKB = HalfUpKB(len)
    /\ len < 512 => ReportedKB = 0
    /\ ReportedKB >= 0
    /\ HalfUpKB(len - 1) <= ReportedKB

\* C9 as stated: the size is floor((length + 512) / 1024), 0 KB below 512
\* characters, never negative, never decreasing; and the example payload
\* "data:image/png;base64,AAAA" has 25 characters.
C9_SizeEstimate25 ==
    (Returned /\ ~Absent /\ Len(console) = 6) =>
        /\ C9_SizeRule
        /\ photoBase64 = ExamplePng =>
            Len(photoBase64.head) + photoBase64.pad = 25 /\ ReportedKB = 0

\* C9 (amended): the same, with the example payload being 26 characters.
C9_SizeEstimate26 ==
    (Returned /\ ~Absent /\ Len(console) = 6) =>
        /\ C9_SizeRule
        /\ photoBase64 = ExamplePng =>
            Len(photoBase64.head) + photoBase64.pad = 26 /\ ReportedKB = 0

C9_Witness ==
    /\ Returned
    /\ photoBase64.defined /\ photoBase64.head = <<>> /\ photoBase64.pad = 512
    /\ Len(console) = 6
    /\ console[5].value = 1

\* C10: a block whose format is PNG also reports a data URL and PROCESSED;
\* PNG never goes with RAW URL; a data URL that is not PNG is JPEG/other
\* and PROCESSED.
C10_PngRefinesDataUrl ==
    (Returned /\ ~Absent /\ Len(console) = 6) =>
        /\ console[4].value = PngFormatText =>
            console[3].value = "true" /\ console[6].value = ProcessedText
        /\ ~(console[4].value = PngFormatText /\ console[6].value = RawUrlText)
        /\ (Begins(DataImagePrefix) /\ ~Begins(DataImagePngPrefix)) =>
            console[4].value = OtherFormatText /\ console[6].value = ProcessedText

C10_Witness ==
    /\ Returned
    /\ photoBase64 = ExamplePng
    /\ Len(console) = 6
    /\ console[3].value = "true"
    /\ console[4].value = PngFormatText
    /\ console[6].value = ProcessedText

====
